---- MODULE Spec2Model ----
(***************************************************************************)
(* A model of wuthering_spider.py: the HakushinSpider harvesting engine.   *)
(*                                                                         *)
(* Text is modelled as a sequence of tokens.  The tokens "/", "." and ":"  *)
(* are the characters the code looks at; every other token is a word that  *)
(* holds none of these three characters (a run of letters, digits or       *)
(* underscores).  Every string operation of the code is computed on the    *)
(* token sequence as Python computes it on the characters.                 *)
(***************************************************************************)
EXTENDS Integers, Sequences, FiniteSets, TLC

(***************************************************************************)
(* Text helpers (Python str methods, on token sequences)                   *)
(***************************************************************************)
StartsWith(s, p) == Len(s) >= Len(p) /\ SubSeq(s, 1, Len(p)) = p

EndsWith(s, p) == Len(s) >= Len(p) /\ SubSeq(s, Len(s) - Len(p) + 1, Len(s)) = p

\* Python: p in s
Contains(s, p) == \E i \in 1..(Len(s) - Len(p) + 1) : SubSeq(s, i, i + Len(p) - 1) = p

\* Python: s.replace(old, new), left to right, non-overlapping
RECURSIVE replace(_, _, _)
replace(s, old, new) ==
  IF s = <<>> THEN <<>>
  ELSE IF StartsWith(s, old)
       THEN new \o replace(SubSeq(s, Len(old) + 1, Len(s)), old, new)
       ELSE <<Head(s)>> \o replace(Tail(s), old, new)

\* Python: s.lstrip("/")
RECURSIVE lstrip_slash(_)
lstrip_slash(s) ==
  IF s # <<>> /\ Head(s) = "/" THEN lstrip_slash(Tail(s)) ELSE s

\* Python: s.split("/"), a sequence of segments (each a token sequence)
RECURSIVE split_slash(_)
split_slash(s) ==
  IF \A i \in 1..Len(s) : s[i] # "/" THEN <<s>>
  ELSE LET i == CHOOSE k \in 1..Len(s) : s[k] = "/" /\ \A j \in 1..(k - 1) : s[j] # "/"
       IN  <<SubSeq(s, 1, i - 1)>> \o split_slash(SubSeq(s, i + 1, Len(s)))

\* Python: "/".join(segs)
RECURSIVE join_slash(_)
join_slash(segs) ==
  IF segs = <<>> THEN <<>>
  ELSE IF Len(segs) = 1 THEN segs[1]
  ELSE segs[1] \o <<"/">> \o join_slash(Tail(segs))

\* Python: s.lower(), on the words whose case the code can observe
LowerTok(t) ==
  CASE t = "PNG" -> "png"
    [] t = "JPG" -> "jpg"
    [] t = "WEBP" -> "webp"
    [] t = "HTTPS" -> "https"
    [] OTHER -> t

lower(s) == [i \in 1..Len(s) |-> LowerTok(s[i])]

\* a faulty substitution: only the last suffix is removed (r'\.[^/.]+$')
re_sub_last_suffix(s) ==
  LET starts == {i \in 1..Len(s) : s[i] = "." /\ i < Len(s)
                                   /\ \A j \in (i + 1)..Len(s) : s[j] \notin {"/", "."}}
  IN  IF starts = {} THEN s
      ELSE SubSeq(s, 1, (CHOOSE i \in starts : TRUE) - 1)

\* re.sub(r'\.[^/]+$', '', s): the leftmost "." that is followed by at least one
\* character and by no "/" up to the end starts the match, which is removed.
re_sub_ext(s) ==
  LET starts == {i \in 1..Len(s) : s[i] = "." /\ i < Len(s)
                                   /\ \A j \in (i + 1)..Len(s) : s[j] # "/"}
  IN  IF starts = {} THEN s
      ELSE SubSeq(s, 1, (CHOOSE i \in starts : \A j \in starts : i <= j) - 1)

(***************************************************************************)
(* urllib.parse.urljoin(base, url) for the fixed base BASE_ASSET_URL       *)
(***************************************************************************)
BASE_API_URL == <<"https", ":", "/", "/", "api", ".", "hakush", ".", "in", "/", "ww", "/", "data", "/">>

BASE_ASSET_URL == <<"https", ":", "/", "/", "api", ".", "hakush", ".", "in", "/", "ww", "/">>

\* The words that hold only scheme characters (letters, digits, "+", "-").
SchemeWords == {"https", "http", "HTTPS", "ftp", "UI", "Game", "Aki", "png", "webp", "evil", "x", "a", "b"}

\* The position of the ":" that ends a URL scheme, or 0 when url has no scheme.
SchemeEnd(url) ==
  LET colons == {i \in 1..Len(url) : url[i] = ":"}
  IN  IF colons = {} THEN 0
      ELSE LET i == CHOOSE k \in colons : \A j \in colons : k <= j
           IN  IF i > 1 /\ url[1] \in SchemeWords
                  /\ \A j \in 1..(i - 1) : url[j] \in SchemeWords \cup {"."}
               THEN i ELSE 0

\* The dot-segment removal of urljoin over the merged segments.
RECURSIVE resolve_segments(_, _)
resolve_segments(segs, acc) ==
  IF segs = <<>> THEN acc
  ELSE IF Head(segs) = <<".", ".">>
       THEN resolve_segments(Tail(segs),
                             IF acc = <<>> THEN acc ELSE SubSeq(acc, 1, Len(acc) - 1))
       ELSE IF Head(segs) = <<".">>
            THEN resolve_segments(Tail(segs), acc)
            ELSE resolve_segments(Tail(segs), Append(acc, Head(segs)))

\* filter(None, segments[1:-1]): empty segments strictly inside are dropped
drop_inner_empty(segs) ==
  LET keep == {i \in 1..Len(segs) : i = 1 \/ i = Len(segs) \/ segs[i] # <<>>}
      RECURSIVE pick(_)
      pick(i) == IF i > Len(segs) THEN <<>>
                 ELSE IF i \in keep THEN <<segs[i]>> \o pick(i + 1) ELSE pick(i + 1)
  IN  pick(1)

BaseOrigin == SubSeq(BASE_ASSET_URL, 1, 9)

\* urlsplit's netloc: what follows a leading "//", up to the next "/"
netloc(rest) ==
  IF ~StartsWith(rest, <<"/", "/">>) THEN <<>>
  ELSE split_slash(SubSeq(rest, 3, Len(rest)))[1]

\* What parse_game_asset_path gives when urljoin raises ValueError.
ValueError == <<"ValueError">>

\* urlsplit: raise ValueError("Invalid IPv6 URL")
invalid_ipv6(host) ==
  \/ Contains(host, <<"[">>) /\ ~Contains(host, <<"]">>)
  \/ Contains(host, <<"]">>) /\ ~Contains(host, <<"[">>)

\* urljoin, last step: the path is put after the base's scheme and host
with_root(path) ==
  BaseOrigin \o (IF StartsWith(path, <<"/">>) THEN path ELSE <<"/">> \o path)

\* urljoin: a final "." or ".." segment leaves a trailing "/"
join_resolved(filtered, resolved) ==
  with_root(join_slash(IF filtered[Len(filtered)] \in {<<".">>, <<".", ".">>}
                       THEN Append(resolved, <<>>) ELSE resolved))

join_filtered(filtered) == join_resolved(filtered, resolve_segments(filtered, <<>>))

\* urljoin: the segments of the base's directory and of the relative path
join_path(base, upath) ==
  join_filtered(drop_inner_empty(
    IF StartsWith(upath, <<"/">>) THEN split_slash(upath)
    ELSE LET base_parts == split_slash(SubSeq(base, 10, Len(base)))
         IN  SubSeq(base_parts, 1, Len(base_parts) - 1) \o split_slash(upath)))

\* urljoin once urlsplit has given the end e of the scheme, what follows it
\* (rest) and the netloc (host)
join_parts(base, url, e, rest, host) ==
  IF invalid_ipv6(host) THEN ValueError
  ELSE IF e # 0 /\ lower(SubSeq(url, 1, e - 1)) # <<"https">> THEN url
  ELSE IF host # <<>> THEN <<"https", ":">> \o rest
  ELSE join_path(base, IF StartsWith(rest, <<"/", "/">>)
                       THEN SubSeq(rest, 3, Len(rest)) ELSE rest)

join_rest(base, url, e, rest) == join_parts(base, url, e, rest, netloc(rest))

join_scheme(base, url, e) == join_rest(base, url, e, SubSeq(url, e + 1, Len(url)))

urljoin(base, url) ==
  IF url = <<>> THEN base ELSE join_scheme(base, url, SchemeEnd(url))

(***************************************************************************)
(* JSON values: [k |-> kind, s |-> text, v |-> entries]                    *)
(*   "dict":  v is a sequence of [key |-> word, val |-> JSON value]        *)
(*   "list":  v is a sequence of [key |-> "", val |-> JSON value]          *)
(*   "str":   s is the text                                                *)
(*   "other": s is the literal's text (null, false, a number)              *)
(***************************************************************************)
JDict(pairs) == [k |-> "dict", s |-> <<>>, v |-> pairs]
JList(items) == [k |-> "list", s |-> <<>>, v |-> [i \in 1..Len(items) |-> [key |-> "", val |-> items[i]]]]
JStr(text) == [k |-> "str", s |-> text, v |-> <<>>]
JOther(w) == [k |-> "other", s |-> <<w>>, v |-> <<>>]

\* Python None (also what resp.json() gives for the body null)
None == JOther("null")

\* Python truthiness: if data / if not data
Truthy(j) ==
  IF j.k = "other" THEN j.s \notin {<<"null">>, <<"false">>, <<"0">>}
  ELSE IF j.k = "str" THEN Len(j.s) > 0 ELSE Len(j.v) > 0

MARKER == <<"/", "Game", "/", "Aki", "/">>

NoUrl == <<>>

\* lines 44-47
parse_stripped(clean_path) ==
  urljoin(BASE_ASSET_URL,
          lstrip_slash(IF \E ext \in {"png", "jpg", "webp"} : EndsWith(lower(clean_path), <<".", ext>>)
                       THEN clean_path ELSE clean_path \o <<".", "webp">>))

\* lines 39-42
parse_replaced(clean_path) ==
  IF ~Contains(clean_path, <<"/">>) THEN NoUrl ELSE parse_stripped(re_sub_ext(clean_path))

parse_game_asset_path(game_path) ==
  IF game_path.k # "str" \/ game_path.s = <<>> THEN NoUrl
  ELSE parse_replaced(replace(game_path.s, MARKER, <<"/">>))

\* extract_images_from_data: the test of line 122
is_candidate(text) ==
  \/ Contains(text, MARKER)
  \/ Contains(text, <<"/", "UI", "/">>) /\ Contains(text, <<".">>)

\* extract_images_from_data(data) ends in the ValueError of urljoin
RECURSIVE extract_raises(_)
extract_raises(data) ==
  CASE data.k \in {"dict", "list"} -> \E i \in 1..Len(data.v) : extract_raises(data.v[i].val)
    [] data.k = "str" -> is_candidate(data.s) /\ parse_game_asset_path(data) = ValueError
    [] OTHER -> FALSE

\* The entries the loops of lines 116 and 119 reach: every one, in order, up to
\* and with the first whose visit raises.
Visited(data) ==
  {i \in 1..Len(data.v) : \A j \in 1..(i - 1) : ~extract_raises(data.v[j].val)}

\* The URLs extract_images_from_data(data) adds to self.global_image_urls
RECURSIVE extract_images_from_data(_)
extract_images_from_data(data) ==
  CASE data.k = "dict" ->
         UNION {extract_images_from_data(data.v[i].val) : i \in Visited(data)}
    [] data.k = "list" ->
         UNION {extract_images_from_data(data.v[i].val) : i \in Visited(data)}
    [] data.k = "str" ->
         IF is_candidate(data.s)
         THEN LET real_url == parse_game_asset_path(data)
              IN  IF real_url \notin {NoUrl, ValueError} THEN {real_url} ELSE {}
         ELSE {}
    [] OTHER -> {}


(***************************************************************************)
(* Serialisation: json.dump writes the tokens of dump(j); json.load gives  *)
(* back the value whose serialisation the file holds and fails on any      *)
(* other text (a cut-short or empty file).                                 *)
(***************************************************************************)
RECURSIVE dump(_)
dump(j) ==
  LET RECURSIVE items(_, _)
      items(i, n) == IF i > n THEN <<>>
                     ELSE (IF i > 1 THEN <<",">> ELSE <<>>)
                          \o (IF j.k = "dict"
                              THEN <<"\"", j.v[i].key, "\"", ":">> \o dump(j.v[i].val)
                              ELSE dump(j.v[i].val))
                          \o items(i + 1, n)
  IN  CASE j.k = "dict" -> <<"{">> \o items(1, Len(j.v)) \o <<"}">>
        [] j.k = "list" -> <<"[">> \o items(1, Len(j.v)) \o <<"]">>
        [] j.k = "str" -> <<"\"">> \o j.s \o <<"\"">>
        [] OTHER -> j.s

(***************************************************************************)
(* The remote site: what each URL answers when nothing goes wrong.         *)
(***************************************************************************)
P_AX == <<"/", "Game", "/", "Aki", "/", "UI", "/", "A", "/", "T_X", ".", "T_X">>
P_BX == <<"/", "Game", "/", "Aki", "/", "UI", "/", "B", "/", "T_X", ".", "T_X">>
P_Y == <<"/", "UI", "/", "C", "/", "T_Y", ".", "png">>

U_AX == parse_game_asset_path(JStr(P_AX))
U_BX == parse_game_asset_path(JStr(P_BX))
U_Y == parse_game_asset_path(JStr(P_Y))

Pair(key, val) == [key |-> key, val |-> val]

CharacterIndex == JDict(<<Pair("a", JDict(<<Pair("Icon", JStr(P_AX))>>))>>)
CharacterDetail == JDict(<<Pair("Name", JStr(<<"Rover">>)), Pair("Icon", JStr(P_AX))>>)
WeaponIndex == JList(<<JDict(<<Pair("Id", JStr(<<"w">>))>>), JDict(<<Pair("Name", JStr(<<"nameless">>))>>)>>)
WeaponDetail == JDict(<<Pair("Icon", JStr(P_BX))>>)
EmptyDict == JDict(<<>>)
ItemIndex == JDict(<<Pair("i", EmptyDict), Pair("j", EmptyDict)>>)
ItemDetail == JList(<<JStr(P_Y), JOther("0")>>)

\* main(): categories, each (name, index file, detail prefix) with the three alike
categories == <<"character", "weapon", "echo", "item">>

\* --langs, as given on the command line
langs == <<"zh", "en">>

index_url(index_file, qualified) ==
  urljoin(BASE_API_URL, (IF qualified THEN <<"en", "/">> ELSE <<>>) \o <<index_file, ".", "json">>)

detail_url(lang, prefix, item_id) ==
  BASE_API_URL \o <<lang, "/", prefix, "/", item_id, ".", "json">>

NotFound == JStr(<<"404">>)

\* The bodies the site serves, by URL.
JsonSite ==
  (index_url("character", TRUE) :> CharacterIndex)
  @@ (index_url("weapon", FALSE) :> WeaponIndex)
  @@ (index_url("echo", TRUE) :> EmptyDict)
  @@ (index_url("echo", FALSE) :> EmptyDict)
  @@ (index_url("item", TRUE) :> ItemIndex)
  @@ [u \in {detail_url(l, "character", "a") : l \in {"zh", "en"}} |-> CharacterDetail]
  @@ [u \in {detail_url(l, "weapon", "w") : l \in {"zh", "en"}} |-> WeaponDetail]
  @@ [u \in {detail_url(l, "item", "i") : l \in {"zh", "en"}} |-> ItemDetail]

\* The body the site serves at a JSON URL; NotFound where it serves none.
ServerJson(url) == IF url \in DOMAIN JsonSite THEN JsonSite[url] ELSE NotFound

\* The body the asset host streams, in chunks.
AssetSite == (U_AX :> <<"ax1", "ax2">>) @@ (U_BX :> <<"bx1">>)

ServerAsset(url) == IF url \in DOMAIN AssetSite THEN AssetSite[url] ELSE <<>>

\* Every JSON value the model handles: json.load is dump's inverse on these.
\* a well-formed payload of a shape the site does not normally send: [0]
OddList == JList(<<JOther("0")>>)

JsonUniverse ==
  {CharacterIndex, CharacterDetail, WeaponIndex, WeaponDetail, EmptyDict, ItemIndex, ItemDetail,
   OddList}

ParseError == JStr(<<"JSONDecodeError">>)

\* json.dump and the collector on each payload of the run, computed once
Dumped == [j \in JsonUniverse |-> dump(j)]

Collected == [j \in JsonUniverse |-> extract_images_from_data(j)]

\* every URL a run can collect
AllUrls == UNION {Collected[j] : j \in JsonUniverse}

load(text) ==
  IF \E j \in JsonUniverse : Dumped[j] = text
  THEN CHOOSE j \in JsonUniverse : Dumped[j] = text
  ELSE ParseError


(***************************************************************************)
(* The output directory: names bound to inodes, inodes holding content.    *)
(* An open file is an inode number, so a write reaches the file even after *)
(* its name was truncated by another open or moved by a rename.            *)
(***************************************************************************)
index_path(category_name) == <<category_name, "/", "index", ".", "json">>

detail_path(category, lang, item_id) == <<category, "/", lang, "/", item_id, ".", "json">>

\* url.split("/")[-1] under assets_dir
asset_path(url) ==
  LET parts == split_slash(url) IN <<"assets", "/">> \o parts[Len(parts)]

\* pathlib: save_path.with_suffix(".tmp")
with_suffix_tmp(path) ==
  LET parts == split_slash(path)
      name == parts[Len(parts)]
      dots == {i \in 1..Len(name) : name[i] = "." /\ i > 1 /\ i < Len(name)}
      stem == IF dots = {} THEN name
              ELSE SubSeq(name, 1, (CHOOSE i \in dots : \A j \in dots : j <= i) - 1)
  IN  join_slash(SubSeq(parts, 1, Len(parts) - 1) \o <<stem \o <<".", "tmp">>>>)

\* the destination and the temporary file of each URL, computed once
SavePaths == [u \in AllUrls |-> asset_path(u)]

TempPaths == [u \in AllUrls |-> with_suffix_tmp(asset_path(u))]

exists(f, path) == path \in DOMAIN f.dir

content(f, path) == f.ino[f.dir[path]]

st_size(f, path) == Len(content(f, path))

\* open(path, "w") / open(path, "wb"): the file is truncated in place, or created
\* as a new inode, which the model numbers by the path and by who creates it
open_w(f, path, who) ==
  IF exists(f, path)
  THEN [fs |-> [f EXCEPT !.ino[f.dir[path]] = <<>>], fd |-> f.dir[path]]
  ELSE LET n == path \o who
       IN  [fs |-> [dir |-> (path :> n) @@ f.dir, ino |-> (n :> <<>>) @@ f.ino], fd |-> n]

\* f.write(chunk) at the file position pos of the open file fd
write_at(f, fd, pos, chunk) ==
  LET c == f.ino[fd]
      padded == c \o [i \in 1..(pos - Len(c)) |-> "hole"]
  IN  [f EXCEPT !.ino[fd] = SubSeq(padded, 1, pos) \o <<chunk>> \o SubSeq(padded, pos + 2, Len(padded))]

\* inodes with neither a name nor an open descriptor are gone
collect(f, open_fds) ==
  [f EXCEPT !.ino = [n \in {m \in DOMAIN f.ino : m \in open_fds \/ \E q \in DOMAIN f.dir : f.dir[q] = m}
                       |-> f.ino[n]]]

\* temp_path.replace(save_path)
replace_file(f, src, dst) ==
  [f EXCEPT !.dir = [q \in (DOMAIN f.dir \cup {dst}) \ {src} |-> IF q = dst THEN f.dir[src] ELSE f.dir[q]]]

\* with open(path, "w") as f: json.dump(data, f), the whole text written
write_json(f, path, data) ==
  LET o == open_w(f, path, <<>>) IN [o.fs EXCEPT !.ino[o.fd] = Dumped[data]]

\* the same write cut short after n tokens
MaxCut == 1

write_json_cut(f, path, data, n) ==
  LET o == open_w(f, path, <<>>) IN [o.fs EXCEPT !.ino[o.fd] = SubSeq(Dumped[data], 1, n)]

Cuts(data) == {n \in 0..(Len(Dumped[data]) - 1) : n <= MaxCut}

(***************************************************************************)
(* Identifiers of an index payload (process_category)                      *)
(***************************************************************************)
HasKey(d, key) == \E i \in 1..Len(d.v) : d.v[i].key = key

\* dict.get(key, default)
Get(d, key, default) ==
  IF HasKey(d, key) THEN d.v[CHOOSE i \in 1..Len(d.v) : d.v[i].key = key].val ELSE default

\* str(value) of an identifier; identifiers are single words
py_str(j) ==
  CASE j.k = "str" -> IF j.s = <<>> THEN "" ELSE j.s[1]
    [] j.k = "other" -> IF j = None THEN "None" ELSE j.s[1]
    [] OTHER -> "object"

\* id_list, as a set; the empty identifier is dropped
id_list(index_data) ==
  CASE index_data.k = "dict" -> {index_data.v[i].key : i \in 1..Len(index_data.v)} \ {""}
    [] index_data.k = "list" ->
         {py_str(Get(index_data.v[i].val, "id", Get(index_data.v[i].val, "Id", JStr(<<>>)))) :
            i \in 1..Len(index_data.v)} \ {""}
    [] OTHER -> {}

\* the identifiers of each payload, computed once
IdLists == [j \in JsonUniverse |-> id_list(j)]

\* x.get on an element that is no mapping raises AttributeError
id_list_raises(index_data) ==
  index_data.k = "list" /\ \E i \in 1..Len(index_data.v) : index_data.v[i].val.k # "dict"


(***************************************************************************)
(* State                                                                   *)
(***************************************************************************)
VARIABLES
  force,    \* self.force
  fs,       \* the output directory
  fs0,      \* the output directory as the run found it
  urls,     \* self.global_image_urls
  permits,  \* self.semaphore: the permits that are free
  main,     \* main(): where the orchestrator is, and in which category
  calls,    \* the fetch_json calls of the current category: index, then details
  dl,       \* the download_file calls of the asset phase, by URL
  bad,      \* the URLs at which the remote site has answered wrongly so far
  arg,      \* the value handed to a function that is studied on its own
  out       \* what that function has given: [set |-> called, val |-> result]

vars == <<force, fs, fs0, urls, permits, main, calls, dl, bad, arg, out>>

\* The semaphore's capacity.  The program sets 15; the model runs the same code
\* with 2, so that its handful of tasks do contend for permits.
MAX_CONCURRENCY == 2

\* The remote site goes wrong at no more than this many URLs in a run; at such a
\* URL any answer may be wrong, any number of times.
MaxBadUrls == 1

NoFile == <<>>

\* no function is studied on its own during a run of main()
NotCalled == [set |-> FALSE, val |-> <<>>]

NewCall(kind, url, ignore_404, save_path) ==
  [kind |-> kind, url |-> url, ignore_404 |-> ignore_404, save_path |-> save_path,
   st |-> "new", attempt |-> 0, sent |-> 0, log |-> <<>>, res |-> None,
   pre |-> NoFile, fed |-> None]

IndexCall(cat, qualified) ==
  NewCall("index", index_url(categories[cat], qualified), FALSE, index_path(categories[cat]))

DetailCall(cat, item_id, lang) ==
  NewCall("detail", detail_url(lang, categories[cat], item_id), categories[cat] = "item",
          detail_path(categories[cat], lang, item_id))

\* the calls of a run, computed once
IndexCalls == [cat \in 1..Len(categories) |-> [qualified \in BOOLEAN |-> IndexCall(cat, qualified)]]

DetailCalls ==
  [cat \in 1..Len(categories) |->
    [t \in (UNION {IdLists[j] : j \in JsonUniverse}) \X {langs[i] : i \in 1..Len(langs)} |->
      DetailCall(cat, t[1], t[2])]]

FirstIndex == <<"index", "en">>
FallbackIndex == <<"index", "any">>

NoFd == <<>>

AttemptTag(attempt) == <<"#", CASE attempt = 0 -> "0" [] attempt = 1 -> "1" [] OTHER -> "2">>

NewDownload(url) ==
  [save_path |-> SavePaths[url], pc |-> "new", attempt |-> 0, sent |-> 0, log |-> <<>>,
   k |-> 0, fd |-> NoFd, res |-> FALSE, hit |-> FALSE]

EmptyDisk == [dir |-> <<>>, ino |-> <<>>]

\* What the run may find: a complete detail record, an empty mapping, an empty
\* file, a record cut short by a crash, and a downloaded asset.
PriorDisk ==
  LET files == (detail_path("character", "zh", "a") :> dump(CharacterDetail))
               @@ (detail_path("character", "en", "a") :> dump(EmptyDict))
               @@ (detail_path("weapon", "zh", "w") :> <<>>)
               @@ (detail_path("item", "zh", "i") :> SubSeq(dump(ItemDetail), 1, 3))
               @@ (SavePaths[U_Y] :> <<"old">>)
  IN  [dir |-> [p \in DOMAIN files |-> p], ino |-> files]

Init ==
  /\ force \in BOOLEAN
  /\ fs \in {EmptyDisk, PriorDisk}
  /\ force => fs = PriorDisk
  /\ fs0 = fs
  /\ urls = {}
  /\ permits = MAX_CONCURRENCY
  /\ main = [pc |-> "index", cat |-> 1]
  /\ calls = (FirstIndex :> IndexCalls[1][TRUE])
  /\ dl = <<>>
  /\ bad = {}
  /\ arg = None
  /\ out = NotCalled

(***************************************************************************)
(* The semaphore                                                           *)
(***************************************************************************)
\* a faulty semaphore: the acquire never waits
AcquireNeverWaits == TRUE

\* async with self.semaphore, entered: a free permit is taken at once
CanAcquire == permits > 0

\* the descriptors the streaming downloads hold open
OpenFds(d) == {d[u].fd : u \in {v \in DOMAIN d : d[v].pc = "body"}}

(***************************************************************************)
(* The remote site's answers                                               *)
(***************************************************************************)
Answer(exc, status, body) == [exc |-> exc, status |-> status, body |-> body]

TrueJson(url) ==
  IF ServerJson(url) = NotFound THEN Answer(FALSE, 404, ParseError)
  ELSE Answer(FALSE, 200, ServerJson(url))

\* the true answer, or: a network error or timeout, a 404, a 500, a 200 with a
\* body that is no JSON, a 200 with the payload [0]
JsonAnswers(url) ==
  {TrueJson(url), Answer(TRUE, 0, ParseError), Answer(FALSE, 404, ParseError),
   Answer(FALSE, 500, ParseError), Answer(FALSE, 200, ParseError), Answer(FALSE, 200, OddList)}

\* fetch_json, lines 73-85, on one answer: how the attempt ends
FetchOutcome(r) ==
  IF r.exc THEN "error"
  ELSE IF r.status = 404 THEN "404"
  ELSE IF r.status \notin 200..299 THEN "error"
  ELSE IF r.body = ParseError THEN "error"
  ELSE "ok"

\* for attempt in range(3)
Attempts == 3

\* if attempt == 2: the attempt after which an error is final
LastAttempt == 2

\* a wrong answer at url is within what the run allows
MayAnswer(url, wrong) == ~wrong \/ url \in bad \/ Cardinality(bad) < MaxBadUrls

Marked(url, wrong) == IF wrong THEN bad \cup {url} ELSE bad

(***************************************************************************)
(* main() and process_category                                             *)
(***************************************************************************)
\* download_all_images up to its gather
download_all_images(us) ==
  IF us = {} THEN [main |-> [pc |-> "done", cat |-> main.cat], dl |-> <<>>]
  ELSE [main |-> [pc |-> "assets", cat |-> main.cat], dl |-> [u \in us |-> NewDownload(u)]]

\* the detail tasks that are still running
Unfinished ==
  [c \in {d \in DOMAIN calls : calls[d].kind = "detail" /\ calls[d].st # "done"} |-> calls[c]]

\* a faulty loop: the downloads start as soon as a category has collected a URL
EnterNextEarly(cat, us) ==
  IF cat < Len(categories) /\ us = {}
  THEN /\ main' = [pc |-> "index", cat |-> cat + 1]
       /\ calls' = (FirstIndex :> IndexCalls[cat + 1][TRUE]) @@ Unfinished
       /\ dl' = dl
  ELSE /\ main' = download_all_images(us).main
       /\ calls' = Unfinished
       /\ dl' = download_all_images(us).dl

\* the for loop of main() moving past category cat, with us the URL set so far
EnterNext(cat, us) ==
  IF cat < Len(categories)
  THEN /\ main' = [pc |-> "index", cat |-> cat + 1]
       /\ calls' = (FirstIndex :> IndexCalls[cat + 1][TRUE]) @@ Unfinished
       /\ dl' = dl
  ELSE /\ main' = download_all_images(us).main
       /\ calls' = Unfinished
       /\ dl' = download_all_images(us).dl

\* a faulty collector: the index payload's URLs replace the set
ProcessIndexForgets(index_data) ==
  LET us == Collected[index_data]
      tasks == IdLists[index_data] \X {langs[i] : i \in 1..Len(langs)}
  IN  /\ urls' = us
      /\ fs' = write_json(fs, index_path(categories[main.cat]), index_data)
      /\ IF id_list_raises(index_data)
         THEN /\ main' = [pc |-> "aborted", cat |-> main.cat]
              /\ calls' = <<>>
              /\ dl' = dl
         ELSE IF tasks = {}
         THEN EnterNext(main.cat, us)
         ELSE /\ main' = [pc |-> "gather", cat |-> main.cat]
              /\ calls' = [t \in {<<"detail", categories[main.cat], d[1], d[2]>> : d \in tasks}
                             |-> DetailCalls[main.cat][<<t[3], t[4]>>]]
              /\ dl' = dl

\* process_category from line 142 on, given a truthy index payload
ProcessIndex(index_data) ==
  LET us == urls \cup Collected[index_data]
      tasks == IdLists[index_data] \X {langs[i] : i \in 1..Len(langs)}
  IN  /\ urls' = us
      /\ fs' = write_json(fs, index_path(categories[main.cat]), index_data)
      /\ IF id_list_raises(index_data)
         THEN /\ main' = [pc |-> "aborted", cat |-> main.cat]
              /\ calls' = <<>>
              /\ dl' = dl
         ELSE IF tasks = {}
         THEN EnterNext(main.cat, us)
         ELSE /\ main' = [pc |-> "gather", cat |-> main.cat]
              /\ calls' = [t \in {<<"detail", categories[main.cat], d[1], d[2]>> : d \in tasks}
                             |-> DetailCalls[main.cat][<<t[3], t[4]>>]]
              /\ dl' = dl

\* a faulty skip: the loop over the categories is left
SkipCategoryBreaks ==
  /\ main' = download_all_images(urls).main
  /\ dl' = download_all_images(urls).dl
  /\ calls' = <<>>
  /\ UNCHANGED <<urls, fs>>

\* lines 138-140: the category is given up and main() goes on
SkipCategory ==
  /\ EnterNext(main.cat, urls)
  /\ UNCHANGED <<urls, fs>>

\* the index fetch that main awaits has returned
Returned == IF FallbackIndex \in DOMAIN calls THEN FallbackIndex ELSE FirstIndex

\* lines 132-140 after a fetch_json returned, then the rest of process_category
IndexReturned ==
  /\ main.pc = "index"
  /\ calls[Returned].st = "ret"
  /\ LET index_data == calls[Returned].res
     IN  IF Truthy(index_data) THEN ProcessIndex(index_data)
         ELSE IF Returned = FirstIndex
         THEN /\ calls' = (FallbackIndex :> IndexCalls[main.cat][FALSE]) @@ calls
              /\ UNCHANGED <<main, dl, urls, fs>>
         ELSE SkipCategory
  /\ UNCHANGED <<arg, out, force, fs0, permits, bad>>

\* the write of index.json (lines 145-146) is cut short and the process ends
IndexWriteCut ==
  /\ main.pc = "index"
  /\ calls[Returned].st = "ret"
  /\ Truthy(calls[Returned].res)
  /\ \E n \in Cuts(calls[Returned].res) :
       fs' = write_json_cut(fs, index_path(categories[main.cat]), calls[Returned].res, n)
  /\ urls' = urls \cup Collected[calls[Returned].res]
  /\ main' = [main EXCEPT !.pc = "crashed"]
  /\ UNCHANGED <<arg, out, force, fs0, permits, calls, dl, bad>>

\* a faulty join: one finished detail task is enough
AnyGathered == \E c \in DOMAIN calls : calls[c].st = "done"

\* asyncio.gather(*tasks) is done
Gathered == \A c \in DOMAIN calls : calls[c].st = "done"

\* line 164: gather returns once every detail task is done
JoinDetails ==
  /\ main.pc = "gather"
  /\ Gathered
  /\ EnterNext(main.cat, urls)
  /\ UNCHANGED <<arg, out, force, fs0, fs, urls, permits, bad>>

(***************************************************************************)
(* fetch_json, and process_single_item around it                           *)
(***************************************************************************)
Running == main.pc \in {"index", "gather", "assets"}

\* the top of the retry loop: the permit is taken and the GET issued, or the
\* task waits for a permit
EnterAttempt(c, call) ==
  IF CanAcquire
  THEN /\ permits' = permits - 1
       /\ calls' = [calls EXCEPT ![c] = [call EXCEPT !.st = "http", !.sent = @ + 1]]
  ELSE /\ permits' = permits
       /\ calls' = [calls EXCEPT ![c] = [call EXCEPT !.st = "wait"]]

\* lines 171-177: the cached record, or None
read_cached(call) ==
  IF exists(fs, call.save_path) /\ ~force
  THEN LET data == load(content(fs, call.save_path))
       IN  IF data = ParseError THEN None ELSE data
  ELSE None

\* a task runs for the first time: process_single_item to its first await, or
\* fetch_json for an index
Start(c) ==
  /\ Running
  /\ calls[c].st = "new"
  /\ LET call == calls[c]
         seen == [call EXCEPT !.pre = IF exists(fs, call.save_path)
                                      THEN content(fs, call.save_path) ELSE NoFile]
         data == read_cached(call)
     IN  IF call.kind = "detail" /\ Truthy(data)
         THEN /\ urls' = urls \cup Collected[data]
              /\ calls' = [calls EXCEPT ![c] = [seen EXCEPT !.st = "done", !.fed = data]]
              /\ permits' = permits
         ELSE /\ EnterAttempt(c, IF call.kind = "detail" THEN seen ELSE call)
              /\ urls' = urls
  /\ UNCHANGED <<arg, out, force, fs0, fs, main, dl, bad>>

\* line 84 is over: the next attempt
Retry(c) ==
  /\ Running
  /\ calls[c].st = "sleep"
  /\ IF calls[c].attempt + 1 < Attempts
     THEN EnterAttempt(c, [calls[c] EXCEPT !.attempt = @ + 1])
     ELSE /\ calls' = [calls EXCEPT ![c].st = IF calls[c].kind = "index" THEN "ret" ELSE "done",
                                    ![c].res = None]
          /\ permits' = permits
  /\ UNCHANGED <<arg, out, force, fs0, fs, urls, main, dl, bad>>

\* a waiting task gets a permit
Wake(c) ==
  /\ Running
  /\ calls[c].st = "wait"
  /\ CanAcquire
  /\ permits' = permits - 1
  /\ calls' = [calls EXCEPT ![c].st = "http", ![c].sent = @ + 1]
  /\ UNCHANGED <<arg, out, force, fs0, fs, urls, main, dl, bad>>

\* a faulty fetch_json: an error on the second attempt is already final
FetchStepGivesUpEarly(call, r) ==
  LET outcome == FetchOutcome(r)
  IN  CASE outcome = "ok" -> [returns |-> TRUE, res |-> r.body]
        [] outcome = "404" -> [returns |-> TRUE, res |-> None]
        [] OTHER -> [returns |-> call.attempt >= LastAttempt - 1, res |-> None]

\* a faulty fetch_json: a 404 is retried like any other error
FetchStepRetries404(call, r) ==
  LET outcome == FetchOutcome(r)
  IN  CASE outcome = "ok" -> [returns |-> TRUE, res |-> r.body]
        [] OTHER -> [returns |-> call.attempt = LastAttempt, res |-> None]

\* what fetch_json returns after answer r, or that it goes on to sleep
FetchStep(call, r) ==
  LET outcome == FetchOutcome(r)
  IN  CASE outcome = "ok" -> [returns |-> TRUE, res |-> r.body]
        [] outcome = "404" -> [returns |-> TRUE, res |-> None]
        [] OTHER -> [returns |-> call.attempt = LastAttempt, res |-> None]

\* the answer to the GET arrives: the permit is released, fetch_json returns or
\* sleeps, and a detail task runs on to its end (lines 184-193)
Response(c, r) ==
  /\ Running
  /\ calls[c].st = "http"
  /\ MayAnswer(calls[c].url, r # TrueJson(calls[c].url))
  /\ bad' = Marked(calls[c].url, r # TrueJson(calls[c].url))
  /\ permits' = permits + 1
  /\ LET call == [calls[c] EXCEPT !.log = Append(@, FetchOutcome(r))]
         step == FetchStep(call, r)
     IN  IF ~step.returns
         THEN /\ calls' = [calls EXCEPT ![c] = [call EXCEPT !.st = "sleep"]]
              /\ UNCHANGED <<fs, urls>>
         ELSE IF call.kind = "index"
         THEN /\ calls' = [calls EXCEPT ![c] = [call EXCEPT !.st = "ret", !.res = step.res]]
              /\ UNCHANGED <<fs, urls>>
         ELSE IF Truthy(step.res)
         THEN /\ fs' = write_json(fs, call.save_path, step.res)
              /\ urls' = urls \cup Collected[step.res]
              /\ calls' = [calls EXCEPT ![c] = [call EXCEPT !.st = "done", !.res = step.res,
                                                            !.fed = step.res]]
         ELSE /\ calls' = [calls EXCEPT ![c] = [call EXCEPT !.st = "done", !.res = step.res]]
              /\ UNCHANGED <<fs, urls>>
  /\ UNCHANGED <<arg, out, force, fs0, main, dl>>

\* the write of a detail record (lines 186-187) is cut short and the process ends
DetailWriteCut(c) ==
  /\ Running
  /\ calls[c].st = "http"
  /\ calls[c].kind = "detail"
  /\ TrueJson(calls[c].url).status = 200
  /\ Truthy(TrueJson(calls[c].url).body)
  /\ \E n \in Cuts(TrueJson(calls[c].url).body) :
       fs' = write_json_cut(fs, calls[c].save_path, TrueJson(calls[c].url).body, n)
  /\ permits' = permits + 1
  /\ main' = [main EXCEPT !.pc = "crashed"]
  /\ UNCHANGED <<arg, out, force, fs0, urls, calls, dl, bad>>

(***************************************************************************)
(* download_file                                                           *)
(***************************************************************************)
EnterDownload(u, d) ==
  IF CanAcquire
  THEN /\ permits' = permits - 1
       /\ dl' = [dl EXCEPT ![u] = [d EXCEPT !.pc = "head", !.sent = @ + 1]]
  ELSE /\ permits' = permits
       /\ dl' = [dl EXCEPT ![u] = [d EXCEPT !.pc = "wait"]]

\* a faulty cache check: the force flag is read the wrong way round
cached_flag_inverted(save_path) == exists(fs, save_path) /\ force /\ st_size(fs, save_path) > 0

\* lines 88-90
cached(save_path) == exists(fs, save_path) /\ ~force /\ st_size(fs, save_path) > 0

DlStart(u) ==
  /\ main.pc = "assets"
  /\ dl[u].pc = "new"
  /\ IF cached(dl[u].save_path)
     THEN /\ dl' = [dl EXCEPT ![u].pc = "done", ![u].res = TRUE, ![u].hit = TRUE]
          /\ permits' = permits
     ELSE EnterDownload(u, dl[u])
  /\ UNCHANGED <<arg, out, force, fs0, fs, urls, main, calls, bad>>

DlRetry(u) ==
  /\ main.pc = "assets"
  /\ dl[u].pc = "sleep"
  /\ IF dl[u].attempt + 1 < Attempts
     THEN EnterDownload(u, [dl[u] EXCEPT !.attempt = @ + 1])
     ELSE /\ dl' = [dl EXCEPT ![u].pc = "done", ![u].res = FALSE]
          /\ permits' = permits
  /\ UNCHANGED <<arg, out, force, fs0, fs, urls, main, calls, bad>>

DlWake(u) ==
  /\ main.pc = "assets"
  /\ dl[u].pc = "wait"
  /\ CanAcquire
  /\ permits' = permits - 1
  /\ dl' = [dl EXCEPT ![u].pc = "head", ![u].sent = @ + 1]
  /\ UNCHANGED <<arg, out, force, fs0, fs, urls, main, calls, bad>>

\* lines 107-111: an exception ended the attempt
DlExcept(d) ==
  IF d.attempt = LastAttempt
  THEN [d EXCEPT !.pc = "done", !.res = FALSE, !.fd = NoFd, !.log = Append(@, "error")]
  ELSE [d EXCEPT !.pc = "sleep", !.fd = NoFd, !.log = Append(@, "error")]

\* a faulty download_file: a status other than 200 is retried
DlRefusedRetries(d) == [d EXCEPT !.pc = "sleep", !.log = Append(@, "non200")]

\* a faulty download_file: a status other than 200 counts as a success
DlRefusedReturnsTrue(d) == [d EXCEPT !.pc = "done", !.res = TRUE, !.log = Append(@, "non200")]

\* line 98: a status other than 200 ends the download
DlRefused(d) == [d EXCEPT !.pc = "done", !.res = FALSE, !.log = Append(@, "non200")]

\* the status line arrives (line 97), or the request fails before it
DlHeaders(u, r) ==
  /\ main.pc = "assets"
  /\ dl[u].pc = "head"
  /\ MayAnswer(u, r # Answer(FALSE, 200, ParseError))
  /\ bad' = Marked(u, r # Answer(FALSE, 200, ParseError))
  /\ IF r.exc
     THEN /\ dl' = [dl EXCEPT ![u] = DlExcept(dl[u])]
          /\ permits' = permits + 1
          /\ fs' = fs
     ELSE IF r.status # 200
     THEN /\ dl' = [dl EXCEPT ![u] = DlRefused(dl[u])]
          /\ permits' = permits + 1
          /\ fs' = fs
     ELSE LET o == open_w(fs, TempPaths[u], <<"#">> \o u \o AttemptTag(dl[u].attempt))
          IN  /\ fs' = o.fs
              /\ dl' = [dl EXCEPT ![u] = [dl[u] EXCEPT !.pc = "body", !.fd = o.fd, !.k = 0]]
              /\ permits' = permits
  /\ UNCHANGED <<arg, out, force, fs0, urls, main, calls>>

AssetAnswers ==
  {Answer(FALSE, 200, ParseError), Answer(TRUE, 0, ParseError), Answer(FALSE, 404, ParseError)}

\* lines 102-103: one chunk arrives and is written
DlChunk(u) ==
  /\ main.pc = "assets"
  /\ dl[u].pc = "body"
  /\ dl[u].k < Len(ServerAsset(u))
  /\ fs' = write_at(fs, dl[u].fd, dl[u].k, ServerAsset(u)[dl[u].k + 1])
  /\ dl' = [dl EXCEPT ![u].k = @ + 1]
  /\ UNCHANGED <<arg, out, force, fs0, urls, permits, main, calls, bad>>

\* a faulty download_file: the permit is not given back when the body breaks
DlBrokenKeepsPermit(u) ==
  /\ main.pc = "assets"
  /\ dl[u].pc = "body"
  /\ MayAnswer(u, TRUE)
  /\ bad' = Marked(u, TRUE)
  /\ dl' = [dl EXCEPT ![u] = DlExcept(dl[u])]
  /\ fs' = collect(fs, OpenFds(dl'))
  /\ permits' = permits
  /\ UNCHANGED <<arg, out, force, fs0, urls, main, calls>>

\* the connection breaks while the body streams
DlBroken(u) ==
  /\ main.pc = "assets"
  /\ dl[u].pc = "body"
  /\ MayAnswer(u, TRUE)
  /\ bad' = Marked(u, TRUE)
  /\ dl' = [dl EXCEPT ![u] = DlExcept(dl[u])]
  /\ fs' = collect(fs, OpenFds(dl'))
  /\ permits' = permits + 1
  /\ UNCHANGED <<arg, out, force, fs0, urls, main, calls>>

\* lines 104-106: the body has ended
DlFinish(u) ==
  /\ main.pc = "assets"
  /\ dl[u].pc = "body"
  /\ dl[u].k = Len(ServerAsset(u))
  /\ dl' = [dl EXCEPT ![u] = [dl[u] EXCEPT !.pc = "done", !.res = TRUE, !.fd = NoFd,
                                           !.log = Append(@, "200")]]
  /\ LET temp_path == TempPaths[u]
     IN  fs' = collect(IF exists(fs, temp_path)
                       THEN replace_file(fs, temp_path, dl[u].save_path) ELSE fs,
                       OpenFds(dl'))
  /\ permits' = permits + 1
  /\ UNCHANGED <<arg, out, force, fs0, urls, main, calls, bad>>

\* line 211: gather returns once every download is done
JoinAssets ==
  /\ main.pc = "assets"
  /\ \A u \in DOMAIN dl : dl[u].pc = "done"
  /\ main' = [main EXCEPT !.pc = "done"]
  /\ UNCHANGED <<arg, out, force, fs0, fs, urls, permits, calls, dl, bad>>

Next ==
  \/ IndexReturned
  \/ IndexWriteCut
  \/ JoinDetails
  \/ \E c \in DOMAIN calls : Start(c)
  \/ \E c \in DOMAIN calls : Retry(c)
  \/ \E c \in DOMAIN calls : Wake(c)
  \/ \E c \in DOMAIN calls : \E r \in JsonAnswers(calls[c].url) : Response(c, r)
  \/ \E c \in DOMAIN calls : DetailWriteCut(c)
  \/ \E u \in DOMAIN dl : DlStart(u)
  \/ \E u \in DOMAIN dl : DlRetry(u)
  \/ \E u \in DOMAIN dl : DlWake(u)
  \/ \E u \in DOMAIN dl : \E r \in AssetAnswers : DlHeaders(u, r)
  \/ \E u \in DOMAIN dl : DlChunk(u)
  \/ \E u \in DOMAIN dl : DlBroken(u)
  \/ \E u \in DOMAIN dl : DlFinish(u)
  \/ JoinAssets

Spec == Init /\ [][Next]_vars

\* The run with no interrupted write: the process is left alone, every request
\* is answered or fails, and the event loop runs whatever task is ready.
NextLive ==
  \/ IndexReturned
  \/ JoinDetails
  \/ \E c \in DOMAIN calls : Start(c)
  \/ \E c \in DOMAIN calls : Retry(c)
  \/ \E c \in DOMAIN calls : Wake(c)
  \/ \E c \in DOMAIN calls : \E r \in JsonAnswers(calls[c].url) : Response(c, r)
  \/ \E u \in DOMAIN dl : DlStart(u)
  \/ \E u \in DOMAIN dl : DlRetry(u)
  \/ \E u \in DOMAIN dl : DlWake(u)
  \/ \E u \in DOMAIN dl : \E r \in AssetAnswers : DlHeaders(u, r)
  \/ \E u \in DOMAIN dl : DlChunk(u)
  \/ \E u \in DOMAIN dl : DlBroken(u)
  \/ \E u \in DOMAIN dl : DlFinish(u)
  \/ JoinAssets

LiveSpec == Init /\ [][NextLive]_vars /\ WF_vars(NextLive)

(***************************************************************************)
(* parse_game_asset_path on its own: one call on one value                 *)
(***************************************************************************)
\* A text handed to the resolver is made of at most this many pieces.
MaxPieces == 5

\* the pieces: the characters the code and urljoin look at, the marker, and
\* words (T_X is a word that cannot be part of a URL scheme)
Pieces ==
  {<<"/">>, <<".">>, <<":">>, <<"[">>, MARKER, <<"UI">>, <<"x">>, <<"png">>, <<"https">>, <<"T_X">>}

RECURSIVE Texts(_)
Texts(n) ==
  IF n = 0 THEN {<<>>}
  ELSE LET shorter == Texts(n - 1)
       IN  shorter \cup {t \o p : t \in shorter, p \in Pieces}

\* what a caller may hand over: any text, and values that are no text
PathInputs == {JStr(t) : t \in Texts(MaxPieces)} \cup {None, JOther("0"), EmptyDict}

Idle ==
  /\ force = FALSE
  /\ fs = EmptyDisk
  /\ fs0 = fs
  /\ permits = MAX_CONCURRENCY
  /\ main = [pc |-> "index", cat |-> 1]
  /\ calls = <<>>
  /\ dl = <<>>
  /\ bad = {}

PathInit ==
  /\ arg \in PathInputs
  /\ out = NotCalled
  /\ urls = {}
  /\ Idle

\* real_url = parse_game_asset_path(data)
Resolve ==
  /\ ~out.set
  /\ out' = [set |-> TRUE, val |-> parse_game_asset_path(arg)]
  /\ UNCHANGED <<arg, force, fs, fs0, urls, permits, main, calls, dl, bad>>

PathNext == Resolve

PathSpec == PathInit /\ [][PathNext]_vars

(***************************************************************************)
(* extract_images_from_data on its own: one call on one value              *)
(***************************************************************************)
\* A mapping or sequence holds at most MaxWidth entries, and containers nest
\* at most MaxDepth deep.
MaxWidth == 2

MaxDepth == 2

\* a text that names an asset on a host whose name urljoin rejects
P_BadHost == <<"https", ":", "/", "/", "[", "/", "UI", "/", "x", ".", "png">>

\* a text that is no candidate
P_Plain == <<"Rover">>

\* the leaves: candidates with and without the marker, other text, scalars
Scalars == {JStr(P_AX), JStr(P_Y), JStr(P_BadHost), JStr(P_Plain), JOther("0"), None}

\* the keys of a mapping, in its order
Keys == <<"k1", "k2">>

RECURSIVE Trees(_)
Trees(depth) ==
  IF depth = 0 THEN Scalars
  ELSE LET below == Trees(depth - 1)
           rows == UNION {[1..n -> below] : n \in 0..MaxWidth}
       IN  below \cup {JList(r) : r \in rows}
                 \cup {JDict([i \in 1..Len(r) |-> Pair(Keys[i], r[i])]) : r \in rows}

CollectInit ==
  /\ arg \in Trees(MaxDepth)
  /\ out = NotCalled
  /\ urls \in {{}, {U_Y}}
  /\ Idle

\* self.extract_images_from_data(data): it returns None or ends in ValueError
Collect ==
  /\ ~out.set
  /\ urls' = urls \cup extract_images_from_data(arg)
  /\ out' = [set |-> TRUE, val |-> IF extract_raises(arg) THEN ValueError ELSE NoUrl]
  /\ UNCHANGED <<arg, force, fs, fs0, permits, main, calls, dl, bad>>

CollectNext == Collect

CollectSpec == CollectInit /\ [][CollectNext]_vars


(***************************************************************************)
(* Properties                                                              *)
(***************************************************************************)
\* requests that hold a permit: JSON fetches awaiting their answer and asset
\* downloads between the sending of the request and the end of the attempt
Inflight ==
  Cardinality({c \in DOMAIN calls : calls[c].st = "http"})
  + Cardinality({u \in DOMAIN dl : dl[u].pc \in {"head", "body"}})

\* C1: at every moment the number of in-flight HTTP requests, JSON fetches and
\* asset downloads together, is at most the semaphore's capacity.
C1_InflightBounded == Inflight <= MAX_CONCURRENCY

\* every permit is out and a further task waits for one
C1_Witness ==
  /\ Inflight = MAX_CONCURRENCY
  /\ \E c \in DOMAIN calls : calls[c].st = "wait"

\* what the output directory held at path before the run, as a set
Before(path) == IF exists(fs0, path) THEN {content(fs0, path)} ELSE {}

\* C2: a download destination is at every moment absent, or holds the copy that
\* was there before, or holds one complete response body of a URL saved there;
\* it never holds a partial or mixed body.
C2_AssetNeverPartial ==
  \A u \in DOMAIN dl :
    exists(fs, dl[u].save_path) =>
      content(fs, dl[u].save_path) \in
        Before(dl[u].save_path)
        \cup {ServerAsset(v) : v \in {w \in DOMAIN dl : dl[w].save_path = dl[u].save_path}}

\* the index and detail files of the output directory
JsonPaths == {p \in DOMAIN fs.dir : p[1] # "assets"}

\* C3: whenever the write of a JSON file is cut short or the process dies in
\* it, the file's path holds a complete serialisation or is as it was before
\* the run; no partly written file is at the path.
C3_JsonNeverPartial ==
  \A p \in JsonPaths :
    \/ load(content(fs, p)) # ParseError
    \/ content(fs, p) \in Before(p)

\* the fetch_json call c is over
Over(c) == calls[c].st \in {"ret", "done"}

AllErrors(log) == \A i \in 1..Len(log) : log[i] = "error"

\* C4: a fetch_json call never issues a fourth request; when every attempt
\* ends in an error other than a 404, the call is over only after exactly three
\* requests, and its result is None.
C4_ThreeAttempts ==
  \A c \in DOMAIN calls :
    /\ calls[c].sent <= 3
    /\ (Over(c) /\ calls[c].sent > 0 /\ AllErrors(calls[c].log)) =>
         (calls[c].sent = 3 /\ Len(calls[c].log) = 3 /\ calls[c].res = None)

\* a call is over after three failed attempts
C4_Witness ==
  \E c \in DOMAIN calls :
    Over(c) /\ calls[c].log = <<"error", "error", "error">> /\ calls[c].res = None

\* C5: once an attempt of a fetch_json call gets a 404, with either value of
\* ignore_404, that attempt is the call's last: the call is over, its result is
\* None, and no request follows.
C5_NotFoundIsFinal ==
  \A c \in DOMAIN calls :
    \A i \in 1..Len(calls[c].log) :
      calls[c].log[i] = "404" =>
        /\ i = Len(calls[c].log)
        /\ calls[c].sent = i
        /\ Over(c)
        /\ calls[c].res = None
        /\ calls[c].fed = None

\* a 404 on the second attempt ended a call that does not ignore 404s
C5_Witness ==
  \E c \in DOMAIN calls :
    ~calls[c].ignore_404 /\ calls[c].log = <<"error", "404">> /\ Over(c)

\* C6: with force-refresh off, a detail task that finds a non-empty file at its
\* destination issues no request, and hands the file's content to the asset
\* collector.
C6_CachedDetailNotFetched ==
  \A c \in DOMAIN calls :
    (calls[c].kind = "detail" /\ calls[c].st # "new" /\ ~force /\ Len(calls[c].pre) > 0) =>
      /\ calls[c].sent = 0
      /\ calls[c].st = "done"
      /\ dump(calls[c].fed) = calls[c].pre

\* C7: with force-refresh off, download_file on a destination that exists with a
\* size above zero reports success in its first step, with no request sent, no
\* permit taken and the output directory untouched.
C7_CachedAssetSkipped ==
  [][\A u \in DOMAIN dl :
       (/\ dl[u].pc = "new"
        /\ dl'[u].pc # "new"
        /\ ~force
        /\ exists(fs, dl[u].save_path)
        /\ st_size(fs, dl[u].save_path) > 0) =>
         (/\ dl'[u].pc = "done"
          /\ dl'[u].res
          /\ dl'[u].sent = 0
          /\ permits' = permits
          /\ fs' = fs)]_vars

\* a download was skipped for its cached file while another request held a permit
C7_Witness ==
  \E u \in DOMAIN dl :
    /\ dl[u].hit /\ dl[u].pc = "done" /\ dl[u].res /\ dl[u].sent = 0
    /\ content(fs, dl[u].save_path) = <<"old">>
    /\ \E v \in DOMAIN dl : dl[v].pc \in {"head", "body"}

\* C8, as the specification words it: a URL in the set gets exactly one request.
C8_ExactlyOneRequest ==
  main.pc = "done" => \A u \in urls : u \in DOMAIN dl /\ dl[u].sent = 1

\* C8: the asset phase runs one download task for each URL of the set, however
\* many payloads named it; the task sends no request on a cache hit, at most 3
\* otherwise, and each request but its last ended in a transport error.
C8_OneTaskPerUrl ==
  main.pc \in {"assets", "done"} =>
    /\ DOMAIN dl = urls
    /\ \A u \in urls :
         /\ dl[u].sent <= 3
         /\ dl[u].hit => dl[u].sent = 0
         /\ (dl[u].pc = "done" /\ ~dl[u].hit) => (dl[u].sent >= 1 /\ Len(dl[u].log) = dl[u].sent)
         /\ \A i \in 1..Len(dl[u].log) : i < dl[u].sent => dl[u].log[i] = "error"

\* the run is over; a URL that the index and both detail records of a character
\* name was requested once, and these three files are the run's own
C8_Witness ==
  /\ main.pc = "done"
  /\ fs0 = EmptyDisk
  /\ U_AX \in urls
  /\ dl[U_AX].sent = 1
  /\ exists(fs, index_path("character"))
  /\ exists(fs, detail_path("character", "zh", "a"))
  /\ exists(fs, detail_path("character", "en", "a"))

\* both index fetches of the category at hand came back None
BothNone ==
  /\ main.pc = "index"
  /\ FallbackIndex \in DOMAIN calls
  /\ calls[FallbackIndex].st = "ret"
  /\ calls[FirstIndex].res = None
  /\ calls[FallbackIndex].res = None

\* C9: when both index fetches of a category yield None, the category is
\* skipped with nothing written or collected, the next category's index fetch
\* is set up, or after the last category the asset phase begins; the asset
\* phase is never entered before the last category.
C9_SkipGoesOn ==
  /\ [](main.pc \in {"assets", "done"} => main.cat = Len(categories))
  /\ [][(BothNone /\ main' # main) =>
          /\ fs' = fs
          /\ urls' = urls
          /\ IF main.cat < Len(categories)
             THEN /\ main' = [pc |-> "index", cat |-> main.cat + 1]
                  /\ calls' = (FirstIndex :> IndexCall(main.cat + 1, TRUE))
             ELSE /\ main'.pc \in {"assets", "done"}
                  /\ DOMAIN dl' = urls]_vars

\* the run is over; the first category was skipped, later ones were processed
C9_Witness ==
  /\ main.pc = "done"
  /\ fs0 = EmptyDisk
  /\ ~exists(fs, index_path("character"))
  /\ exists(fs, index_path("weapon"))
  /\ exists(fs, detail_path("item", "zh", "i"))

\* C10: while any fetch_json call for an index is in the task table, no detail
\* task is unfinished: the categories run one after the other.
C10_Sequential ==
  (\E c \in DOMAIN calls : calls[c].kind = "index" /\ calls[c].st # "new") =>
    \A d \in DOMAIN calls : calls[d].kind = "detail" => calls[d].st = "done"

\* the second category's index is being fetched after the first one's detail
\* tasks wrote their records
C10_Witness ==
  /\ main = [pc |-> "index", cat |-> 2]
  /\ calls[FirstIndex].st = "http"
  /\ fs0 = EmptyDisk
  /\ exists(fs, detail_path("character", "zh", "a"))
  /\ exists(fs, detail_path("character", "en", "a"))

\* C11: download tasks exist, and asset requests are sent, only once the loop
\* over the categories has passed the last one with no detail task unfinished;
\* the tasks are created in one step and the set of them never changes after.
C11_AssetsLast ==
  /\ [](DOMAIN dl # {} =>
          /\ main.pc \in {"assets", "done"}
          /\ main.cat = Len(categories)
          /\ \A c \in DOMAIN calls : calls[c].st = "done")
  /\ [][DOMAIN dl # {} => DOMAIN dl' = DOMAIN dl]_vars

\* an asset request is in flight after the run wrote the index and detail files
\* of the first, second and last category
C11_Witness ==
  /\ \E u \in DOMAIN dl : dl[u].pc = "head" /\ dl[u].sent = 1
  /\ fs0 = EmptyDisk
  /\ exists(fs, detail_path("character", "en", "a"))
  /\ exists(fs, detail_path("weapon", "en", "w"))
  /\ exists(fs, index_path("item"))
  /\ exists(fs, detail_path("item", "en", "i"))

\* every download task has settled
Settled == \A u \in DOMAIN dl : dl[u].pc = "done"

\* C12: whatever the site answers, a run that is scheduled fairly and whose
\* requests all end reaches its terminal state, with every download settled.
C12_RunCompletes == <>(main.pc = "done" /\ Settled)

\* parse_game_asset_path has returned a URL
ReturnedUrl == out.set /\ out.val \notin {NoUrl, ValueError}

\* C13: every URL that parse_game_asset_path returns lies under the asset base:
\* it starts with BASE_ASSET_URL, whatever the input holds (".." segments, a
\* scheme, an absolute URL).
C13_Confined == ReturnedUrl => StartsWith(out.val, BASE_ASSET_URL)

\* C14: every URL that parse_game_asset_path returns ends in ".webp", whatever
\* the extension of the input.
C14_AlwaysWebp == ReturnedUrl => EndsWith(out.val, <<".", "webp">>)

\* a path with two suffixes, the first of them .png, has been resolved
C14_Witness ==
  /\ arg = JStr(<<"/", ".", "png", ".", "x">>)
  /\ out = [set |-> TRUE, val |-> BASE_ASSET_URL \o <<".", "webp">>]

\* C15: while the process runs, a permit is held only by a task whose HTTP
\* attempt is in progress: the permits held by such tasks and the free permits
\* add up to the capacity at every moment (so none is held in a retry delay,
\* after a return, or after a 404, a non-200 or an exception), and all are free
\* when the run completes.
C15_PermitScoped ==
  /\ main.pc # "crashed" => Inflight + permits = MAX_CONCURRENCY
  /\ main.pc = "done" => permits = MAX_CONCURRENCY

\* a download waits its retry delay after an exception, another has returned,
\* and a third holds the only permit that is out
C15_Witness ==
  /\ permits = MAX_CONCURRENCY - 1
  /\ \E u \in DOMAIN dl : dl[u].pc = "sleep" /\ dl[u].log = <<"error">>
  /\ \E u \in DOMAIN dl : dl[u].pc = "done"
  /\ \E u \in DOMAIN dl : dl[u].pc = "body"

\* main() leaves the index step of the category at hand
LeavesIndex == main.pc = "index" /\ main' # main

\* C16: the unqualified index URL is fetched if and only if the fetch of the
\* language-qualified one yielded None, and a category is skipped (left with
\* no index.json written) if and only if both fetches yielded None; a payload
\* that is an empty mapping or an empty sequence brings no fallback and no skip.
C16_FallbackIffNone ==
  /\ [](FallbackIndex \in DOMAIN calls => calls[FirstIndex].res = None)
  /\ [][(main.pc = "index" /\ calls[FirstIndex].st = "ret" /\ calls[FirstIndex].res = None
          /\ FallbackIndex \notin DOMAIN calls /\ vars' # vars)
         => FallbackIndex \in DOMAIN calls']_vars
  /\ [][LeavesIndex =>
          (~exists(fs', index_path(categories[main.cat])) <=> BothNone)]_vars

\* download u receives a status other than 200 in this step
Refused(u) == dl[u].pc = "head" /\ dl'[u].log = Append(dl[u].log, "non200")

\* C17: the step in which a download receives a status other than 200 ends the
\* call with false and writes nothing, destination and temporary file stay as
\* they are; a call that has returned sends nothing more; only attempts that
\* ended in a transport error are followed by another, 3 attempts at most.
C17_Non200IsFinal ==
  /\ [][\A u \in DOMAIN dl : Refused(u) =>
          /\ dl'[u].pc = "done"
          /\ ~dl'[u].res
          /\ dl'[u].sent = dl[u].sent
          /\ fs' = fs]_vars
  /\ [][\A u \in DOMAIN dl : dl[u].pc = "done" => dl'[u] = dl[u]]_vars
  /\ [](\A u \in DOMAIN dl :
          /\ dl[u].sent <= Attempts
          /\ \A i \in 1..Len(dl[u].log) : i < dl[u].sent => dl[u].log[i] = "error")

\* the run is over; a download was refused on its second attempt, after a
\* transport error, and neither its destination nor its temporary file exists
C17_Witness ==
  /\ main.pc = "done"
  /\ \E u \in DOMAIN dl :
       /\ dl[u].log = <<"error", "non200">>
       /\ dl[u].sent = 2
       /\ ~dl[u].res
       /\ ~exists(fs, dl[u].save_path)
       /\ ~exists(fs, TempPaths[u])

\* C18: the URL set is empty when the run starts, no step removes an element
\* from it, and no step of the asset phase changes it.
C18_SetOnlyGrows ==
  /\ urls = {}
  /\ [][urls \subseteq urls']_vars
  /\ [][main.pc \in {"assets", "done"} => urls' = urls]_vars

\* the asset phase is over with one download that succeeded and one that
\* failed, and the set holds the three URLs the payloads named
C18_Witness ==
  /\ main.pc = "done"
  /\ urls = {U_AX, U_BX, U_Y}
  /\ \E u \in DOMAIN dl : dl[u].res /\ ~dl[u].hit
  /\ \E u \in DOMAIN dl : ~dl[u].res

\* the string leaves of a value: mapping values and sequence elements at any
\* depth, never a mapping key
RECURSIVE Leaves(_)
Leaves(value) ==
  CASE value.k = "str" -> {value.s}
    [] value.k = "other" -> {}
    [] OTHER -> UNION {Leaves(value.v[i].val) : i \in 1..Len(value.v)}

\* the URLs of the candidates among the string leaves of a value
Resolved(value) ==
  {parse_game_asset_path(JStr(t)) : t \in {l \in Leaves(value) : is_candidate(l)}}
    \ {NoUrl, ValueError}

\* C19: after extract_images_from_data(value) the set is the set before the
\* call united with the URLs the resolver gives for the candidate string leaves
\* of value, and value is as it was.
C19_CollectorResult ==
  [][(~out.set /\ out'.set) => (urls' = urls \cup Resolved(arg) /\ arg' = arg)]_vars

\* download_file for u returns true in this step
ReturnsTrue(u) ==
  /\ u \in DOMAIN dl /\ u \in DOMAIN dl'
  /\ dl[u].pc # "done"
  /\ dl'[u].pc = "done"
  /\ dl'[u].res

\* C20: at the moment download_file returns true, on a cache hit or after a
\* fetch, a file exists at the destination path and its size is not zero.
C20_TrueMeansFile ==
  [][\A u \in urls : ReturnsTrue(u) =>
        /\ exists(fs', dl[u].save_path)
        /\ st_size(fs', dl[u].save_path) > 0]_vars
====
